---- MODULE Spec2Model ----
(***************************************************************************)
(* A model of stima.py: the phase extractor (parse_markdown_file), the     *)
(* estimate calculator (calculate_estimates), the summary renderer         *)
(* (generate_summary), the document updater (update_markdown_file) and the *)
(* command-line driver (main).                                             *)
(*                                                                         *)
(* Text is modelled at token granularity.  A line is a sequence of tokens  *)
(* (strings): " " is a run of whitespace, "###" the heading marker, "---"  *)
(* a horizontal rule, "**Stima ore**:" the estimate label, "ore" the unit  *)
(* word, "-" a hyphen, a decimal numeral such as "15" a run of digits, and *)
(* any other string a word.  A text (a file's content, a summary) is the   *)
(* non-empty sequence of its lines, as content.split("\n") gives it.       *)
(* Non-ASCII glyphs of the program's fixed texts are transliterated.       *)
(***************************************************************************)
EXTENDS Integers, Sequences, FiniteSets, TLC

VARIABLES
    file,           \* the target file's content (a text), or Missing
    pc,             \* the position of the running operation
    idx,            \* parse_markdown_file: index of the next line to scan
    current_phase,  \* parse_markdown_file: the cursor (None when unset)
    phases,         \* the extracted phase list
    args,           \* the options of the run (argparse's namespace)
    estimates,      \* calculate_estimates' result, final averages included
    summary,        \* the rendered summary (a text), NoText before rendering
    sinks,          \* output file, stdout, clipboard and exit status
    history         \* what earlier operations saw and produced

vars == <<file, pc, idx, current_phase, phases, args, estimates, summary,
          sinks, history>>

----------------------------------------------------------------------------
(* Program constants *)

MIN_HOURLY_RATE_DEFAULT == 34
MAX_HOURLY_RATE_DEFAULT == 36
MIN_WEEKLY_HOURS_DEFAULT == 12
MAX_WEEKLY_HOURS_DEFAULT == 16

(* Bounds of the model *)

\* the largest number an estimate line of an input document may hold
MaxInt == 25
\* the longest enumerated document of the extractor's specification, in lines
MaxLines == 3
\* the longest enumerated phase list of the calculator's specification
MaxPhases == 2
\* the largest hour value of an enumerated phase of the calculator
MaxHours == 2
\* the longest enumerated document of the driver's specification, in blocks
MaxBlocks == 4
\* the number of updates the updater's specification applies to a document
MaxUpdates == 2

----------------------------------------------------------------------------
(* Strings and texts *)

\* None, and the empty string: both are false where the program tests them
None == <<>>
\* no text at all (a text has at least one line)
NoText == <<>>
\* the content of a path that does not exist
Missing == <<>>

\* True when sequence s begins with sequence p: str.startswith
StartsWith(s, p) ==
    /\ Len(p) <= Len(s)
    /\ SubSeq(s, 1, Len(p)) = p

RECURSIVE LStrip(_)
LStrip(line) ==
    IF line # <<>> /\ Head(line) = " " THEN LStrip(Tail(line)) ELSE line

RECURSIVE RStripLine(_)
RStripLine(line) ==
    IF line # <<>> /\ line[Len(line)] = " "
    THEN RStripLine(SubSeq(line, 1, Len(line) - 1))
    ELSE line

\* str.strip() of one line
Strip(line) == RStripLine(LStrip(line))

\* a + b for two texts: the last line of a and the first of b become one line
TextCat(a, b) ==
    SubSeq(a, 1, Len(a) - 1) \o <<a[Len(a)] \o b[1]>> \o Tail(b)

\* str.rstrip() of a text: trailing whitespace, line breaks included, removed
RECURSIVE RStrip(_)
RStrip(text) ==
    LET last == RStripLine(text[Len(text)])
    IN  IF last = <<>> /\ Len(text) > 1
        THEN RStrip(SubSeq(text, 1, Len(text) - 1))
        ELSE SubSeq(text, 1, Len(text) - 1) \o <<last>>

\* \d+ : the token is a run of digits
IsDigits(tok) == \E n \in 0..MaxInt : ToString(n) = tok

\* int() of a run of digits
int(tok) == CHOOSE n \in 0..MaxInt : ToString(n) = tok

----------------------------------------------------------------------------
(* Phase extractor: parse_markdown_file *)

HeadingPrefix == <<"###", " ">>
RiepilogoHeading == <<"###", " ", "Riepilogo", " ", "stime">>
StimaEconomicaHeading == <<"###", " ", "Stima", " ", "economica">>
TimelineStimataHeading == <<"###", " ", "Timeline", " ", "stimata">>
PreventivoHeading == <<"###", " ", "Preventivo", " ", "finale">>

\* The first branch of the loop: a level-3 heading that is none of the
\* excluded summary sections
IsPhaseHeading(line) ==
    /\ StartsWith(Strip(line), HeadingPrefix)
    /\ ~StartsWith(Strip(line), RiepilogoHeading)
    /\ ~StartsWith(Strip(line), StimaEconomicaHeading)
    /\ ~StartsWith(Strip(line), TimelineStimataHeading)

\* line.strip()[4:]
HeadingText(line) == SubSeq(Strip(line), 3, Len(Strip(line)))

IsEstimateLabel(line) == StartsWith(Strip(line), <<"**Stima ore**:">>)

\* the positions where (\d+)[-en-dash](\d+)\s+ore matches
RangeMatches(line) ==
    {i \in 1..(Len(line) - 4) :
        /\ IsDigits(line[i])
        /\ line[i + 1] \in {"-", "en-dash"}
        /\ IsDigits(line[i + 2])
        /\ line[i + 3] = " "
        /\ line[i + 4] = "ore"}

\* the positions where (\d+)\s+ore matches
SingleMatches(line) ==
    {i \in 1..(Len(line) - 2) :
        /\ IsDigits(line[i])
        /\ line[i + 1] = " "
        /\ line[i + 2] = "ore"}

\* re.search returns the leftmost match
First(S) == CHOOSE i \in S : \A j \in S : i <= j

Phase(name, min, max) ==
    [name |-> name, min_hours |-> min, max_hours |-> max]

\* A mutant of ScanLine: the cursor survives the emission of a phase
ScanLineKeepsCursor(st, line) ==
    IF IsPhaseHeading(line)
    THEN [cursor |-> HeadingText(line), phases |-> st.phases]
    ELSE IF st.cursor # None /\ IsEstimateLabel(line)
    THEN IF RangeMatches(line) # {}
         THEN LET i == First(RangeMatches(line))
              IN  [cursor |-> st.cursor,
                   phases |-> Append(st.phases,
                       Phase(st.cursor, int(line[i]), int(line[i + 2])))]
         ELSE IF SingleMatches(line) # {}
         THEN LET i == First(SingleMatches(line))
              IN  [cursor |-> st.cursor,
                   phases |-> Append(st.phases,
                       Phase(st.cursor, int(line[i]), int(line[i])))]
         ELSE st
    ELSE st

\* One iteration of the loop over the lines: st is the loop's state
\* (current_phase, phases)
ScanLine(st, line) ==
    IF IsPhaseHeading(line)
    THEN [cursor |-> HeadingText(line), phases |-> st.phases]
    ELSE IF st.cursor # None /\ IsEstimateLabel(line)
    THEN IF RangeMatches(line) # {}
         THEN LET i == First(RangeMatches(line))
              IN  [cursor |-> None,
                   phases |-> Append(st.phases,
                       Phase(st.cursor, int(line[i]), int(line[i + 2])))]
         ELSE IF SingleMatches(line) # {}
         THEN LET i == First(SingleMatches(line))
              IN  [cursor |-> None,
                   phases |-> Append(st.phases,
                       Phase(st.cursor, int(line[i]), int(line[i])))]
         ELSE st
    ELSE st

RECURSIVE ScanLines(_, _)
ScanLines(st, lines) ==
    IF lines = <<>> THEN st
    ELSE ScanLines(ScanLine(st, Head(lines)), Tail(lines))

\* The phases parse_markdown_file returns for a readable file
parse_markdown_file(content) ==
    ScanLines([cursor |-> None, phases |-> <<>>], content).phases

----------------------------------------------------------------------------
(* Estimate calculator: round_to_multiple, calculate_estimates *)

\* round(n / d) for n >= 0 and d > 0: the nearest integer, a tie going to
\* the even one
round(n, d) ==
    LET q == n \div d
        r == n % d
    IN  IF 2 * r < d THEN q
        ELSE IF 2 * r > d THEN q + 1
        ELSE IF q % 2 = 0 THEN q ELSE q + 1

\* the default of round_to_multiple's parameter multiple
MULTIPLE_DEFAULT == 5

\* round_to_multiple(n / d), multiple left at its default
round_to_multiple(n, d) == MULTIPLE_DEFAULT * round(n, d * MULTIPLE_DEFAULT)

RECURSIVE SumMin(_)
SumMin(ps) == IF ps = <<>> THEN 0 ELSE Head(ps).min_hours + SumMin(Tail(ps))

RECURSIVE SumMax(_)
SumMax(ps) == IF ps = <<>> THEN 0 ELSE Head(ps).max_hours + SumMax(Tail(ps))

\* A mutant of calculate_estimates: each total is divided by the weekly
\* hours of its own side
calculate_estimates_same_side(ps, min_hourly_rate, max_hourly_rate, min_weekly_hours, max_weekly_hours) ==
    [total_hours_min |-> SumMin(ps),
     total_hours_max |-> SumMax(ps),
     min_price |-> round_to_multiple(SumMin(ps) * min_hourly_rate, 1),
     max_price |-> round_to_multiple(SumMax(ps) * max_hourly_rate, 1),
     weeks_min |-> round(SumMin(ps), min_weekly_hours),
     weeks_max |-> round(SumMax(ps), max_weekly_hours)]

calculate_estimates(ps, min_hourly_rate, max_hourly_rate, min_weekly_hours, max_weekly_hours) ==
    [total_hours_min |-> SumMin(ps),
     total_hours_max |-> SumMax(ps),
     min_price |-> round_to_multiple(SumMin(ps) * min_hourly_rate, 1),
     max_price |-> round_to_multiple(SumMax(ps) * max_hourly_rate, 1),
     weeks_min |-> round(SumMin(ps), max_weekly_hours),
     weeks_max |-> round(SumMax(ps), min_weekly_hours)]

----------------------------------------------------------------------------
(* Summary renderer: generate_summary *)

\* A mutant of final_values: the averages are not halved
final_values_sum(e) ==
    [final_hours |-> round(e.total_hours_min + e.total_hours_max, 1),
     final_price |-> round_to_multiple(e.min_price + e.max_price, 1),
     final_weeks |-> round(e.weeks_min + e.weeks_max, 1)]

\* The final quote's values: the averages of the aggregate's bounds
final_values(e) ==
    [final_hours |-> round(e.total_hours_min + e.total_hours_max, 2),
     final_price |-> round_to_multiple(e.min_price + e.max_price, 2),
     final_weeks |-> round(e.weeks_min + e.weeks_max, 2)]

\* a group of three digits, zero-padded
Pad3(k) ==
    IF k < 10 THEN <<"0", "0", ToString(k)>>
    ELSE IF k < 100 THEN <<"0", ToString(k)>>
    ELSE <<ToString(k)>>

\* f"{n:,.0f}".replace(",", "."): groups of three digits separated by "."
RECURSIVE FormatCurrency(_)
FormatCurrency(n) ==
    IF n < 1000 THEN <<ToString(n)>>
    ELSE FormatCurrency(n \div 1000) \o <<".">> \o Pad3(n % 1000)

Bold(n) == <<"**", ToString(n), "**">>

RECURSIVE RangeRows(_)
RangeRows(ps) ==
    IF ps = <<>> THEN <<>>
    ELSE <<(<<"|", " ">> \o Head(ps).name
            \o <<" ", "|", " ", ToString(Head(ps).min_hours)>>
            \o <<" ", "|", " ", ToString(Head(ps).max_hours), " ", "|">>)>>
         \o RangeRows(Tail(ps))

RECURSIVE FinalRows(_)
FinalRows(ps) ==
    IF ps = <<>> THEN <<>>
    ELSE <<(<<"|", " ">> \o Head(ps).name
            \o <<" ", "|", " ",
                 ToString(round(Head(ps).min_hours + Head(ps).max_hours, 2)),
                 " ", "|">>)>>
         \o FinalRows(Tail(ps))

ClosingLines ==
    << <<>>,
       <<"###", " ", "Modalita", " ", "di", " ", "pagamento">>,
       <<"Acconto del 50% all'inizio del progetto oppure pagamento a milestone in base agli accordi stabiliti.">>,
       <<>>,
       <<"###", " ", "Considerazioni", " ", "finali">>,
       <<"_Le stime si basano sulle specifiche tecniche fornite. Eventuali modifiche sostanziali potrebbero comportare variazioni di costo e timeline._">> >>

\* The summary of a non-empty phase list: the lines joined by "\n"
generate_summary(ps, min_hourly_rate, max_hourly_rate, min_weekly_hours, max_weekly_hours, final_quote) ==
    LET e == calculate_estimates(ps, min_hourly_rate, max_hourly_rate,
                                 min_weekly_hours, max_weekly_hours)
        f == final_values(e)
    IN  << <<"---">>, <<>> >>
        \o (IF final_quote
            THEN << PreventivoHeading,
                    <<>>,
                    <<"| Fase | Ore (media) |">>,
                    <<"| :--- | :---: |">> >>
                 \o FinalRows(ps)
                 \o << (<<"|", " ", "**TOTALE**", " ", "|", " ">>
                        \o Bold(f.final_hours) \o <<" ", "|">>),
                       <<>>,
                       <<"###", " ", "Costo", " ", "del", " ", "progetto">>,
                       <<>>,
                       (<<"**Prezzo finale: EUR">>
                        \o FormatCurrency(f.final_price) \o <<"**">>),
                       <<>>,
                       <<"###", " ", "Timeline">>,
                       <<>>,
                       <<"**", ToString(f.final_weeks), " ", "settimane**",
                         " ", "per il completamento.">> >>
            ELSE << RiepilogoHeading,
                    <<>>,
                    <<"| Fase | Ore Min | Ore Max |">>,
                    <<"| :--- | :---: | :---: |">> >>
                 \o RangeRows(ps)
                 \o << (<<"|", " ", "**TOTALE**", " ", "|", " ">>
                        \o Bold(e.total_hours_min) \o <<" ", "|", " ">>
                        \o Bold(e.total_hours_max) \o <<" ", "|">>),
                       <<>>,
                       StimaEconomicaHeading,
                       <<>>,
                       (<<"**Range di prezzo: EUR">>
                        \o FormatCurrency(e.min_price) \o <<" ", "-", " ", "EUR">>
                        \o FormatCurrency(e.max_price) \o <<"**">>),
                       <<>>,
                       <<"_Nota: i costi indicati si riferiscono esclusivamente alle attivita di sviluppo. Eventuali costi per servizi esterni non sono inclusi nella stima._">>,
                       <<>>,
                       TimelineStimataHeading,
                       <<>>,
                       <<"**", ToString(e.weeks_min), "-", ToString(e.weeks_max),
                         " ", "settimane**", " ", "per il completamento.">>,
                       <<>>,
                       <<"_Nota: la timeline e indicativa e dipende dalla complessita delle implementazioni, eventuali revisioni richieste e disponibilita del team di sviluppo._">> >>)
        \o ClosingLines

----------------------------------------------------------------------------
(* Document updater: update_markdown_file *)

\* the marker "---\n\n" + heading begins in line i of the content: the line
\* ends with the rule, a blank line follows, and the next line begins with
\* the heading
MarkerAt(content, i, heading) ==
    /\ i + 2 <= Len(content)
    /\ content[i] # <<>>
    /\ content[i][Len(content[i])] = "---"
    /\ content[i + 1] = <<>>
    /\ StartsWith(content[i + 2], heading)

\* content.find("---\n\n" + heading): the line where the first occurrence
\* begins, -1 when there is none
find(content, heading) ==
    LET at == {i \in 1..Len(content) : MarkerAt(content, i, heading)}
    IN  IF at = {} THEN -1 ELSE First(at)

\* content[:index] for a marker beginning in line i
Before(content, i) ==
    SubSeq(content, 1, i - 1)
    \o <<SubSeq(content[i], 1, Len(content[i]) - 1)>>

\* "\n\n" as a text
TwoNewlines == << <<>>, <<>>, <<>> >>

\* The content update_markdown_file writes (no_edit unset, no I/O error)
update_markdown_file(content, new_summary) ==
    LET riepilogo == find(content, RiepilogoHeading)
        preventivo == find(content, PreventivoHeading)
        summary_index == IF riepilogo # -1 THEN riepilogo ELSE preventivo
    IN  IF summary_index # -1
        THEN TextCat(Before(content, summary_index), new_summary)
        ELSE TextCat(TextCat(RStrip(content), TwoNewlines), new_summary)


----------------------------------------------------------------------------
(* Input documents *)

LineDesign == <<"###", " ", "Design">>
\* an indented heading with trailing whitespace
LineBuild == <<" ", "###", " ", "Build", " ">>
\* a heading that begins with an excluded title and goes on
LineRiepilogoLonger == RiepilogoHeading \o <<" ", "dettagliato">>
LineRange == <<"**Stima ore**:", " ", "10", "-", "15", " ", "ore">>
LineRange2 == <<"**Stima ore**:", " ", "20", "en-dash", "25", " ", "ore">>
LineSingle == <<"**Stima ore**:", " ", "5", " ", "ore">>
LineInverted == <<"**Stima ore**:", " ", "15", "-", "10", " ", "ore">>
LineUnparsable == <<"**Stima ore**:", " ", "da", " ", "definire">>
LineText == <<"Descrizione", " ", "della", " ", "fase">>

\* the two-phase document of the specification's scenario
ScenarioDoc == <<LineDesign, LineRange, LineBuild, LineRange2, <<>> >>

ScenarioPhases ==
    <<Phase(<<"Design">>, 10, 15), Phase(<<"Build">>, 20, 25)>>

ExtractLines ==
    {LineDesign, LineBuild, RiepilogoHeading, LineRiepilogoLonger,
     StimaEconomicaHeading, TimelineStimataHeading, PreventivoHeading,
     LineRange, LineSingle, LineInverted, LineUnparsable, LineText}

ExtractDocs ==
    UNION {[1..n -> ExtractLines] : n \in 1..MaxLines} \cup {ScenarioDoc}

HourlyRates == {1, MIN_HOURLY_RATE_DEFAULT, MAX_HOURLY_RATE_DEFAULT}
WeeklyHours == {2, MIN_WEEKLY_HOURS_DEFAULT, MAX_WEEKLY_HOURS_DEFAULT}

DefaultArgs ==
    [min_hourly_rate |-> MIN_HOURLY_RATE_DEFAULT,
     max_hourly_rate |-> MAX_HOURLY_RATE_DEFAULT,
     min_weekly_hours |-> MIN_WEEKLY_HOURS_DEFAULT,
     max_weekly_hours |-> MAX_WEEKLY_HOURS_DEFAULT,
     final |-> FALSE, output |-> "", no_clipboard |-> FALSE,
     no_edit |-> FALSE]

CalcPhases ==
    {Phase(<<"Design">>, lo, hi) : lo \in 0..MaxHours, hi \in 0..MaxHours}

CalcPhaseLists ==
    UNION {[1..n -> CalcPhases] : n \in 1..MaxPhases} \cup {ScenarioPhases}

NoEstimates == [aggregate |-> <<>>, final |-> <<>>]
\* nothing written anywhere, the process running (status -1)
NoSinks == [output_file |-> NoText, stdout |-> NoText, clipboard |-> NoText,
            message |-> "", status |-> -1]
NoHistory == [runs |-> 1, updates |-> 0, edited |-> FALSE, same |-> FALSE,
              before |-> NoText, first |-> <<>>]

----------------------------------------------------------------------------
(* The extractor, one line a step *)

InitExtract ==
    /\ file \in ExtractDocs
    /\ pc = "parse"
    /\ idx = 1
    /\ current_phase = None
    /\ phases = <<>>
    /\ args = DefaultArgs
    /\ estimates = NoEstimates
    /\ summary = NoText
    /\ sinks = NoSinks
    /\ history = NoHistory

\* the loop's body applied to line idx
Scan ==
    LET st == ScanLine([cursor |-> current_phase, phases |-> phases], file[idx])
    IN  /\ current_phase' = st.cursor
        /\ phases' = st.phases
        /\ idx' = idx + 1
        /\ UNCHANGED <<file, pc, args, estimates, summary, sinks, history>>

ParseHeading ==
    /\ pc = "parse"
    /\ idx <= Len(file)
    /\ IsPhaseHeading(file[idx])
    /\ Scan

ParseEstimate ==
    /\ pc = "parse"
    /\ idx <= Len(file)
    /\ ~IsPhaseHeading(file[idx])
    /\ current_phase # None
    /\ IsEstimateLabel(file[idx])
    /\ Scan

ParseOther ==
    /\ pc = "parse"
    /\ idx <= Len(file)
    /\ ~IsPhaseHeading(file[idx])
    /\ ~(current_phase # None /\ IsEstimateLabel(file[idx]))
    /\ Scan

ParseReturn ==
    /\ pc = "parse"
    /\ idx > Len(file)
    /\ pc' = "parsed"
    /\ UNCHANGED <<file, idx, current_phase, phases, args, estimates, summary,
                   sinks, history>>

NextExtract == ParseHeading \/ ParseEstimate \/ ParseOther \/ ParseReturn

SpecExtract == InitExtract /\ [][NextExtract]_vars

----------------------------------------------------------------------------
(* The calculator and the final quote's averages *)

InitCalc ==
    /\ phases \in CalcPhaseLists
    /\ \E r1 \in HourlyRates, r2 \in HourlyRates,
          w1 \in WeeklyHours, w2 \in WeeklyHours :
          args = [DefaultArgs EXCEPT !.min_hourly_rate = r1,
                                     !.max_hourly_rate = r2,
                                     !.min_weekly_hours = w1,
                                     !.max_weekly_hours = w2,
                                     !.final = TRUE]
    /\ pc = "calculate"
    /\ file = Missing
    /\ idx = 1
    /\ current_phase = None
    /\ estimates = NoEstimates
    /\ summary = NoText
    /\ sinks = NoSinks
    /\ history = NoHistory

Calculate ==
    /\ pc = "calculate"
    /\ estimates' = [estimates EXCEPT !.aggregate =
           calculate_estimates(phases, args.min_hourly_rate,
               args.max_hourly_rate, args.min_weekly_hours,
               args.max_weekly_hours)]
    /\ pc' = "calculated"
    /\ UNCHANGED <<file, idx, current_phase, phases, args, summary, sinks,
                   history>>

Average ==
    /\ pc = "calculated"
    /\ args.final
    /\ estimates' = [estimates EXCEPT !.final = final_values(estimates.aggregate)]
    /\ pc' = "averaged"
    /\ UNCHANGED <<file, idx, current_phase, phases, args, summary, sinks,
                   history>>

NextCalc == Calculate \/ Average

SpecCalc == InitCalc /\ [][NextCalc]_vars


----------------------------------------------------------------------------
(* The document updater, called repeatedly on one file *)

RiepilogoBlock == << <<"---">>, <<>>, RiepilogoHeading >>
PreventivoBlock == << <<"---">>, <<>>, PreventivoHeading >>

RECURSIVE Flatten(_)
Flatten(blocks) ==
    IF blocks = <<>> THEN <<>> ELSE Head(blocks) \o Flatten(Tail(blocks))

\* the texts made of at most n of the blocks, each ending with a line break
TextsOf(blocks, n) ==
    {Flatten(bs) \o << <<>> >> : bs \in UNION {[1..k -> blocks] : k \in 1..n}}

UpdateDocs == TextsOf({<<LineText>>, RiepilogoBlock, PreventivoBlock}, MaxBlocks)

\* the rendered summaries of the scenario's phases, in both modes
Summaries ==
    {generate_summary(ScenarioPhases, MIN_HOURLY_RATE_DEFAULT,
         MAX_HOURLY_RATE_DEFAULT, MIN_WEEKLY_HOURS_DEFAULT,
         MAX_WEEKLY_HOURS_DEFAULT, f) : f \in BOOLEAN}

InitUpdate ==
    /\ file \in UpdateDocs
    /\ pc = "update"
    /\ idx = 1
    /\ current_phase = None
    /\ phases = ScenarioPhases
    /\ args = DefaultArgs
    /\ estimates = NoEstimates
    /\ summary = NoText
    /\ sinks = NoSinks
    /\ history = NoHistory

\* update_markdown_file(file_path, s) with no_edit unset, returning True
UpdateEdit ==
    \E s \in Summaries :
        /\ pc = "update"
        /\ history.updates < MaxUpdates
        /\ file' = update_markdown_file(file, s)
        /\ summary' = s
        /\ history' = [history EXCEPT !.updates = @ + 1,
                                      !.edited = TRUE,
                                      !.same = history.edited /\ s = summary,
                                      !.before = file]
        /\ UNCHANGED <<pc, idx, current_phase, phases, args, estimates, sinks>>

\* update_markdown_file(file_path, s, no_edit=True): True, nothing written
UpdateNoEdit ==
    \E s \in Summaries :
        /\ pc = "update"
        /\ history.updates < MaxUpdates
        /\ summary' = s
        /\ history' = [history EXCEPT !.updates = @ + 1,
                                      !.edited = FALSE,
                                      !.same = FALSE,
                                      !.before = file]
        /\ UNCHANGED <<file, pc, idx, current_phase, phases, args, estimates,
                       sinks>>

\* update_markdown_file whose reading or writing raises: False, file kept
UpdateError ==
    \E s \in Summaries :
        /\ pc = "update"
        /\ history.updates < MaxUpdates
        /\ summary' = s
        /\ sinks' = [sinks EXCEPT !.message = "Error updating file"]
        /\ history' = [history EXCEPT !.updates = @ + 1,
                                      !.edited = FALSE,
                                      !.same = FALSE,
                                      !.before = file]
        /\ UNCHANGED <<file, pc, idx, current_phase, phases, args, estimates>>

NextUpdate == UpdateEdit \/ UpdateNoEdit \/ UpdateError

SpecUpdate == InitUpdate /\ [][NextUpdate]_vars

----------------------------------------------------------------------------
(* The driver: main *)

DriverDocs ==
    TextsOf({<<LineDesign>>, <<LineRange>>, <<LineText>>, RiepilogoBlock,
             PreventivoBlock}, MaxBlocks)
    \cup {ScenarioDoc, Missing}

Init ==
    /\ file \in DriverDocs
    /\ pc = "main"
    /\ idx = 1
    /\ current_phase = None
    /\ phases = <<>>
    /\ \E f \in BOOLEAN, e \in BOOLEAN, c \in BOOLEAN,
          o \in {"", "-", "out.md"} :
          args = [DefaultArgs EXCEPT !.final = f, !.no_edit = e,
                                     !.no_clipboard = c, !.output = o]
    /\ estimates = NoEstimates
    /\ summary = NoText
    /\ sinks = NoSinks
    /\ history = [NoHistory EXCEPT !.before = file]

\* print(message); sys.exit(status)
Exit(message, status) ==
    /\ sinks' = [sinks EXCEPT !.message = message, !.status = status]
    /\ pc' = "exit"

\* the path does not exist
MainFileMissing ==
    /\ pc = "main"
    /\ file = Missing
    /\ Exit("Error: The file does not exist.", 1)
    /\ UNCHANGED <<file, idx, current_phase, phases, args, estimates, summary,
                   history>>

\* parse_markdown_file cannot read the file
MainReadError ==
    /\ pc = "main"
    /\ file # Missing
    /\ Exit("Error reading file", 1)
    /\ UNCHANGED <<file, idx, current_phase, phases, args, estimates, summary,
                   history>>

MainParse ==
    /\ pc = "main"
    /\ file # Missing
    /\ phases' = parse_markdown_file(file)
    /\ pc' = "parsed"
    /\ UNCHANGED <<file, idx, current_phase, args, estimates, summary, sinks,
                   history>>

\* A mutant of MainNoPhases: the diagnostic is printed and the process exits
\* with status 0
MainNoPhasesExitsZero ==
    /\ pc = "parsed"
    /\ phases = <<>>
    /\ Exit("No phases found in the file. Ensure the format is correct.", 0)
    /\ UNCHANGED <<file, idx, current_phase, phases, args, estimates, summary,
                   history>>

MainNoPhases ==
    /\ pc = "parsed"
    /\ phases = <<>>
    /\ Exit("No phases found in the file. Ensure the format is correct.", 1)
    /\ UNCHANGED <<file, idx, current_phase, phases, args, estimates, summary,
                   history>>

\* generate_summary, which checks the phase list once more
MainGenerate ==
    /\ pc = "parsed"
    /\ phases # <<>>
    /\ IF phases = <<>>
       THEN /\ Exit("No phases found in the file.", 1)
            /\ UNCHANGED summary
       ELSE /\ summary' = generate_summary(phases, args.min_hourly_rate,
                              args.max_hourly_rate, args.min_weekly_hours,
                              args.max_weekly_hours, args.final)
            /\ pc' = "update"
            /\ UNCHANGED sinks
    /\ UNCHANGED <<file, idx, current_phase, phases, args, estimates, history>>

MainSkipEdit ==
    /\ pc = "update"
    /\ args.no_edit
    /\ pc' = "output"
    /\ UNCHANGED <<file, idx, current_phase, phases, args, estimates, summary,
                   sinks, history>>

MainUpdateFile ==
    /\ pc = "update"
    /\ ~args.no_edit
    /\ file' = update_markdown_file(file, summary)
    /\ history' = [history EXCEPT !.edited = TRUE]
    /\ pc' = "output"
    /\ UNCHANGED <<idx, current_phase, phases, args, estimates, summary, sinks>>

\* update_markdown_file returns False: a warning, and the run goes on
MainUpdateFails ==
    /\ pc = "update"
    /\ ~args.no_edit
    /\ sinks' = [sinks EXCEPT !.message = "Failed to update input file"]
    /\ pc' = "output"
    /\ UNCHANGED <<file, idx, current_phase, phases, args, estimates, summary,
                   history>>

MainWriteOutput ==
    /\ pc = "output"
    /\ args.output \notin {"", "-"}
    /\ sinks' = [sinks EXCEPT !.output_file = summary]
    /\ pc' = "clipboard"
    /\ UNCHANGED <<file, idx, current_phase, phases, args, estimates, summary,
                   history>>

MainWriteOutputFails ==
    /\ pc = "output"
    /\ args.output \notin {"", "-"}
    /\ Exit("Error saving file", 1)
    /\ UNCHANGED <<file, idx, current_phase, phases, args, estimates, summary,
                   history>>

MainPrint ==
    /\ pc = "output"
    /\ args.output \in {"", "-"}
    /\ sinks' = [sinks EXCEPT !.stdout = summary]
    /\ pc' = "clipboard"
    /\ UNCHANGED <<file, idx, current_phase, phases, args, estimates, summary,
                   history>>

MainSkipClipboard ==
    /\ pc = "clipboard"
    /\ args.no_clipboard
    /\ sinks' = [sinks EXCEPT !.status = 0]
    /\ pc' = "exit"
    /\ UNCHANGED <<file, idx, current_phase, phases, args, estimates, summary,
                   history>>

\* copy_to_clipboard returns True
MainCopy ==
    /\ pc = "clipboard"
    /\ ~args.no_clipboard
    /\ sinks' = [sinks EXCEPT !.clipboard = summary, !.status = 0]
    /\ pc' = "exit"
    /\ UNCHANGED <<file, idx, current_phase, phases, args, estimates, summary,
                   history>>

\* copy_to_clipboard returns False: a warning
MainCopyFails ==
    /\ pc = "clipboard"
    /\ ~args.no_clipboard
    /\ sinks' = [sinks EXCEPT !.message = "Could not copy to clipboard.",
                              !.status = 0]
    /\ pc' = "exit"
    /\ UNCHANGED <<file, idx, current_phase, phases, args, estimates, summary,
                   history>>

Next ==
    \/ MainFileMissing \/ MainReadError \/ MainParse
    \/ MainNoPhases \/ MainGenerate
    \/ MainSkipEdit \/ MainUpdateFile \/ MainUpdateFails
    \/ MainWriteOutput \/ MainWriteOutputFails \/ MainPrint
    \/ MainSkipClipboard \/ MainCopy \/ MainCopyFails

Spec == Init /\ [][Next]_vars

\* The program is run again, with the same options, on the file a
\* successful first run left
MainRerun ==
    /\ pc = "exit"
    /\ sinks.status = 0
    /\ history.runs = 1
    /\ history' = [history EXCEPT
           !.runs = 2,
           !.edited = FALSE,
           !.first = [phases |-> phases, summary |-> summary, file |-> file,
                      edited |-> history.edited]]
    /\ pc' = "main"
    /\ phases' = <<>>
    /\ summary' = NoText
    /\ sinks' = NoSinks
    /\ UNCHANGED <<file, idx, current_phase, args, estimates>>

NextRerun == Next \/ MainRerun

SpecRerun == Init /\ [][NextRerun]_vars

----------------------------------------------------------------------------
(* Claims about the extractor, under SpecExtract *)

\* the lines scanned so far
Scanned == SubSeq(file, 1, idx - 1)

\* an estimate line one of the two patterns matches
ValidEstimateLine(line) ==
    /\ IsEstimateLabel(line)
    /\ (RangeMatches(line) # {} \/ SingleMatches(line) # {})

\* a heading that sets the cursor precedes line i of doc with no valid
\* estimate line in between
CursorSetAt(doc, i) ==
    \E j \in 1..(i - 1) :
        /\ IsPhaseHeading(doc[j])
        /\ \A k \in (j + 1)..(i - 1) : ~ValidEstimateLine(doc[k])

EmittingLines(doc) ==
    {i \in 1..Len(doc) : ValidEstimateLine(doc[i]) /\ CursorSetAt(doc, i)}

\* the last heading before line i that sets the cursor
PendingHeading(doc, i) ==
    CHOOSE j \in 1..(i - 1) :
        /\ IsPhaseHeading(doc[j])
        /\ \A k \in (j + 1)..(i - 1) : ~IsPhaseHeading(doc[k])

\* the hours an estimate line states: those of the range when it holds
\* one, else those of the single value
StatedHours(line) ==
    IF RangeMatches(line) # {}
    THEN <<int(line[First(RangeMatches(line))]),
           int(line[First(RangeMatches(line)) + 2])>>
    ELSE <<int(line[First(SingleMatches(line))]),
           int(line[First(SingleMatches(line))])>>

\* C4: the extractor emits, in document order, exactly one phase for each
\* valid estimate line reached while the cursor is set, named after the
\* pending heading, and nothing else; so a heading yields at most one phase,
\* a heading replaced by another before a valid estimate line yields none,
\* an unparsable estimate line leaves the cursor set, and an estimate line
\* before any heading yields nothing.
C4_OnePhasePerReachedEstimate ==
    pc \in {"parse", "parsed"} =>
        LET doc == Scanned
            E == EmittingLines(doc)
        IN  /\ Len(phases) = Cardinality(E)
            /\ \A i \in E :
                  LET k == Cardinality({j \in E : j <= i})
                      h == PendingHeading(doc, i)
                  IN  /\ phases[k].name = HeadingText(doc[h])
                      /\ <<phases[k].min_hours, phases[k].max_hours>>
                             = StatedHours(doc[i])
            /\ (current_phase # None) = CursorSetAt(doc, idx)
            /\ Len(phases)
                   <= Cardinality({j \in 1..Len(doc) : IsPhaseHeading(doc[j])})

\* C4 witness: a second valid estimate line under the same heading was
\* scanned and ignored.
C4_Witness ==
    /\ pc = "parsed"
    /\ file = <<LineDesign, LineRange, LineSingle>>
    /\ phases = <<Phase(<<"Design">>, 10, 15)>>

ReservedTitles ==
    {<<"Riepilogo", " ", "stime">>, <<"Stima", " ", "economica">>,
     <<"Timeline", " ", "stimata">>, <<"Preventivo", " ", "finale">>}

\* C5: a level-3 heading sets the cursor if and only if its text equals none
\* of the four reserved titles, and no extracted phase is named by a
\* reserved title.
C5_CursorSetIffNotReserved ==
    /\ (pc = "parse" /\ idx > 1
            /\ StartsWith(Strip(file[idx - 1]), HeadingPrefix)) =>
          ((current_phase = HeadingText(file[idx - 1]))
              <=> (HeadingText(file[idx - 1]) \notin ReservedTitles))
    /\ \A k \in 1..Len(phases) : phases[k].name \notin ReservedTitles

\* C6: every emitted phase has 0 <= min_hours <= max_hours and a non-empty
\* name.
C6_PhaseInvariant ==
    \A k \in 1..Len(phases) :
        /\ 0 <= phases[k].min_hours
        /\ phases[k].min_hours <= phases[k].max_hours
        /\ phases[k].name # <<>>

----------------------------------------------------------------------------
(* Claims about the calculator, under SpecCalc *)

Abs(x) == IF x < 0 THEN -x ELSE x

\* q is the integer nearest to n / d, the even one of the two at a tie
NearestInteger(q, n, d) ==
    /\ 2 * Abs(q * d - n) <= d
    /\ (2 * Abs(q * d - n) = d) => (q % 2 = 0)

\* the sum of f over the elements of a phase list, from the right
RECURSIVE Total(_, _)
Total(ps, field) ==
    IF Len(ps) = 0 THEN 0
    ELSE Total(SubSeq(ps, 1, Len(ps) - 1), field) + ps[Len(ps)][field]

\* C7: the totals are the sums of the phases' hours, each price is five
\* times the integer nearest to a fifth of total times rate, weeks_min is
\* the integer nearest to total_hours_min / max_weekly_hours and weeks_max
\* the one nearest to total_hours_max / min_weekly_hours; the scenario
\* (Design 10-15, Build 20-25, rates 34/36, weekly hours 12/16) gives
\* (30, 40, 1020, 1440, 2, 3).
C7_AggregateFormulas ==
    pc \in {"calculated", "averaged"} =>
        LET e == estimates.aggregate
        IN  /\ e.total_hours_min = Total(phases, "min_hours")
            /\ e.total_hours_max = Total(phases, "max_hours")
            /\ e.min_price % 5 = 0
            /\ NearestInteger(e.min_price \div 5,
                              e.total_hours_min * args.min_hourly_rate, 5)
            /\ e.max_price % 5 = 0
            /\ NearestInteger(e.max_price \div 5,
                              e.total_hours_max * args.max_hourly_rate, 5)
            /\ NearestInteger(e.weeks_min, e.total_hours_min,
                              args.max_weekly_hours)
            /\ NearestInteger(e.weeks_max, e.total_hours_max,
                              args.min_weekly_hours)
            /\ (phases = ScenarioPhases
                /\ args = [DefaultArgs EXCEPT !.final = TRUE]) =>
                   e = [total_hours_min |-> 30, total_hours_max |-> 40,
                        min_price |-> 1020, max_price |-> 1440,
                        weeks_min |-> 2, weeks_max |-> 3]

\* C7 witness: the scenario has been calculated.
C7_Witness ==
    /\ pc = "calculated"
    /\ phases = ScenarioPhases
    /\ args = [DefaultArgs EXCEPT !.final = TRUE]
    /\ estimates.aggregate.weeks_min = 2

\* each phase has min_hours <= max_hours and each minimum option is positive
\* and at most its maximum
SaneInput ==
    /\ \A k \in 1..Len(phases) : phases[k].min_hours <= phases[k].max_hours
    /\ 0 < args.min_hourly_rate
    /\ args.min_hourly_rate <= args.max_hourly_rate
    /\ 0 < args.min_weekly_hours
    /\ args.min_weekly_hours <= args.max_weekly_hours

\* C10: for sane input no aggregate has its minimum above its maximum, and
\* each final average lies between the two bounds it averages.
C10_BoundsNotInverted ==
    (pc \in {"calculated", "averaged"} /\ SaneInput) =>
        LET e == estimates.aggregate
            f == estimates.final
        IN  /\ e.total_hours_min <= e.total_hours_max
            /\ e.min_price <= e.max_price
            /\ e.weeks_min <= e.weeks_max
            /\ pc = "averaged" =>
                  /\ e.total_hours_min <= f.final_hours
                  /\ f.final_hours <= e.total_hours_max
                  /\ e.min_price <= f.final_price
                  /\ f.final_price <= e.max_price
                  /\ e.weeks_min <= f.final_weeks
                  /\ f.final_weeks <= e.weeks_max

\* C10 witness: averages taken of bounds that differ, for sane input.
C10_Witness ==
    /\ pc = "averaged"
    /\ SaneInput
    /\ estimates.aggregate.min_price < estimates.final.final_price
    /\ estimates.final.final_price < estimates.aggregate.max_price
    /\ estimates.aggregate.weeks_min < estimates.aggregate.weeks_max


----------------------------------------------------------------------------
(* Claims about the updater, under SpecUpdate *)

\* the lines of a text where a summary marker of either kind begins
MarkerLines(content) ==
    {i \in 1..Len(content) :
        \/ MarkerAt(content, i, RiepilogoHeading)
        \/ MarkerAt(content, i, PreventivoHeading)}

\* C1: updating twice with the same summary leaves the file as updating
\* once did.
C1_UpdateIdempotent ==
    history.same => file = history.before

\* C2: after an update the file holds exactly one summary marker, the one
\* that begins the summary just written.
C2_OneSummaryRegion ==
    (pc = "update" /\ history.edited) =>
        MarkerLines(file) = {Len(file) - Len(summary) + 1}

\* C9: when the file holds both markers, the update replaces from the
\* marker that occurs first in the text, whichever kind it is.
C9_EarliestMarkerWins ==
    (pc = "update" /\ history.edited
        /\ find(history.before, RiepilogoHeading) # -1
        /\ find(history.before, PreventivoHeading) # -1) =>
        file = TextCat(Before(history.before, First(MarkerLines(history.before))),
                       summary)

----------------------------------------------------------------------------
(* Claims about the driver, under Spec and SpecRerun *)

\* C8: when the extractor yields no phase the run stops there with status
\* 1: the file is as it was, no summary is rendered, and nothing is written
\* to the output file, to stdout or to the clipboard.
C8_NoPhasesNoOutput ==
    (pc \in {"parsed", "update", "output", "clipboard", "exit"}
        /\ phases = <<>>) =>
        /\ pc \in {"parsed", "exit"}
        /\ pc = "exit" => sinks.status = 1
        /\ file = history.before
        /\ summary = NoText
        /\ sinks.output_file = NoText
        /\ sinks.stdout = NoText
        /\ sinks.clipboard = NoText

\* C8 witness: a readable file gave no phase and the process has exited.
C8_Witness ==
    /\ pc = "exit"
    /\ file # Missing
    /\ phases = <<>>
    /\ sinks.message = "No phases found in the file. Ensure the format is correct."
    /\ sinks.status = 1

\* C3: a second run with the same options on the file a successful first
\* run updated extracts the same phases, renders the same summary and
\* leaves the file as the first run left it.
C3_RerunFixedPoint ==
    (history.runs = 2 /\ history.first.edited
        /\ sinks.message \notin {"Error reading file", "Failed to update input file"}) =>
        /\ pc \in {"parsed", "update", "output", "clipboard", "exit"} =>
              phases = history.first.phases
        /\ pc \in {"update", "output", "clipboard", "exit"} =>
              summary = history.first.summary
        /\ pc \in {"output", "clipboard", "exit"} =>
              file = history.first.file


====
